---------------------------- MODULE Spec2Model ----------------------------
(***************************************************************************)
(* Model of cmdline_words_parser: the in-place POSIX shell word splitter   *)
(* PosixShellWords (src/src/lib.rs, duplicated in src/src/posix.rs) and    *)
(* the cmd.exe word splitter Win32ShellWords (src/src/win32.rs).           *)
(*                                                                         *)
(* The underlying byte buffer is `buf`; the iterator's window `self.0` is  *)
(* the suffix of `buf` that starts at absolute offset `start`.  One call   *)
(* of next() is the run  idle -> scan -> ... -> sep -> ... -> idle,  one   *)
(* step per loop iteration of the code, so that every single write into    *)
(* the buffer is a step of the model.                                      *)
(***************************************************************************)
EXTENDS Integers, Sequences, FiniteSets

VARIABLES
    parser,   \* which iterator was built: "posix" or "win32"
    T,        \* the output slice type the iterator was built for: "str" or "bytes"
    input,    \* the bytes the caller handed to parse_cmdline_words (never changes)
    buf,      \* the caller's buffer, as next() has rewritten it so far
    start,    \* absolute offset of the window self.0 inside buf
    pc,       \* position inside next(): "idle", "scan", "sep", "panic"
    i,        \* read cursor of the for loop (offset inside the window)
    outpos,   \* write cursor (offset inside the window)
    endpos,   \* structural end of the word (offset inside the window)
    mode,     \* PosixEscapeMode
    result,   \* what the latest next() call returned: "Start" before any call
    words,    \* the words yielded so far (position, length, span, bytes)
    nones,    \* how many calls have returned None so far (saturating)
    wr        \* absolute buffer positions written by the latest step

vars == <<parser, T, input, buf, start, pc, i, outpos, endpos, mode, result, words, nones, wr>>

----------------------------------------------------------------------------
(* Bounds of the model *)

\* longest input drawn from the general alphabet
MaxLen == 4
\* longest literal that is escaped byte by byte to form an input
MaxLit == 3
\* longest input drawn from the multi-byte alphabet
MaxUtf == 4
\* longest input drawn from the escape-letter alphabet
MaxEsc == 4
\* longest input handed to Win32ShellWords
MaxW32 == 4
\* how many yielded words the history `words` records
MaxWords == 6
\* how many None returns `nones` counts
MaxNones == 2

----------------------------------------------------------------------------
(* Bytes the code names *)

SP  == 32
TAB == 9
LF  == 10
CR  == 13
BSL == 92
SQ  == 39
DQ  == 34
LowerN == 110
LowerR == 114
LowerT == 116
LowerA == 97
Caret  == 94
\* the two bytes of U+00E9, a well-formed two-byte UTF-8 sequence
Lead2 == 195
Cont  == 169
\* the value the code mangles consumed positions with
Zero == 0
\* "no byte is emitted" (Option::None of the match in next())
NoOut == -1

Separators == {SP, TAB, LF, CR}

----------------------------------------------------------------------------
(* Sequences of bytes *)

RECURSIVE SeqsUpTo(_, _)
SeqsUpTo(S, n) ==
    IF n = 0 THEN {<<>>}
    ELSE LET shorter == SeqsUpTo(S, n - 1)
         IN  shorter \cup {Append(s, b) : s \in {t \in shorter : Len(t) = n - 1}, b \in S}

\* std::str::from_utf8: is bs (from index k on) well-formed UTF-8 ?
IsCont(b) == b >= 128 /\ b <= 191

RECURSIVE ValidUtf8From(_, _)
ValidUtf8From(bs, k) ==
    IF k > Len(bs) THEN TRUE
    ELSE LET b == bs[k]
             has(n) == k + n <= Len(bs)
         IN  IF b < 128 THEN ValidUtf8From(bs, k + 1)
             ELSE IF b >= 194 /\ b <= 223
                  THEN has(1) /\ IsCont(bs[k+1]) /\ ValidUtf8From(bs, k + 2)
             ELSE IF b >= 224 /\ b <= 239
                  THEN /\ has(2)
                       /\ IsCont(bs[k+1]) /\ IsCont(bs[k+2])
                       /\ (b = 224 => bs[k+1] >= 160)
                       /\ (b = 237 => bs[k+1] <= 159)
                       /\ ValidUtf8From(bs, k + 3)
             ELSE IF b >= 240 /\ b <= 244
                  THEN /\ has(3)
                       /\ IsCont(bs[k+1]) /\ IsCont(bs[k+2]) /\ IsCont(bs[k+3])
                       /\ (b = 240 => bs[k+1] >= 144)
                       /\ (b = 244 => bs[k+1] <= 143)
                       /\ ValidUtf8From(bs, k + 4)
             ELSE FALSE

ValidUtf8(bs) == ValidUtf8From(bs, 1)

\* StrExtOut::from_bytes: does the conversion to &T succeed ?
from_bytes(t, bs) == IF t = "str" THEN ValidUtf8(bs) ELSE TRUE

----------------------------------------------------------------------------
(* The inputs the model draws *)

GeneralAlphabet == {SP, TAB, BSL, SQ, DQ, LowerT, LowerA}
IdentityEscapable == {SP, TAB, CR, LF, SQ, DQ, BSL}
UtfAlphabet == {SP, BSL, DQ, LowerA, Lead2, Cont}
EscapeAlphabet == {BSL, DQ, LowerN, LowerR, LF, CR}

\* re-escape with the Outer-mode table: a backslash before every byte
RECURSIVE Escape(_)
Escape(lit) ==
    IF lit = <<>> THEN <<>>
    ELSE <<BSL, Head(lit)>> \o Escape(Tail(lit))

GeneralInputs == SeqsUpTo(GeneralAlphabet, MaxLen)
EscapedInputs == {Escape(lit) : lit \in SeqsUpTo(IdentityEscapable, MaxLit)}
UtfInputs     == SeqsUpTo(UtfAlphabet, MaxUtf)
EscapeInputs  == SeqsUpTo(EscapeAlphabet, MaxEsc)

Win32Alphabet == {SP, LF, Caret, DQ, LowerA}
\* the text handed to Win32ShellWords::new
Win32Inputs   == SeqsUpTo(Win32Alphabet, MaxW32)

\* parse_cmdline_words on str / String: the caller's text is valid UTF-8
StrInputs   ==
    {s \in GeneralInputs \cup EscapedInputs \cup UtfInputs \cup EscapeInputs : ValidUtf8(s)}
\* parse_cmdline_words on [u8]: any bytes
ByteInputs  == UtfInputs

----------------------------------------------------------------------------
(* The window *)

WindowLen == Len(buf) - start

\* a variant that indexes the caller's buffer instead of the window
AbsNoOffset(k) == k + 1
\* self.0[k] is this position of the buffer: self.0 is the tail that
\* split_off_front_inplace_mut left in the iterator
Abs(k) == start + k + 1

\* self.0[k], k an offset inside the window
At(k) == buf[Abs(k)]
Window == SubSeq(buf, start + 1, Len(buf))

\* a variant that starts the structural end at the last index of the window
InitialEndposLastIndex == WindowLen - 1
\* let mut endpos = self.0.len()
InitialEndpos == WindowLen

\* a variant that stops one byte early
IsExhaustedEarly == WindowLen <= 1
\* self.0.len() == 0
IsExhausted == WindowLen = 0

----------------------------------------------------------------------------
(* The match of next(): what one byte does in one mode *)

\* a variant in which a separator ends the word inside quotes too
IsBreakInQuotes(m, byte) ==
    m \in {"Outer", "SingleQuote", "DoubleQuote"} /\ byte \in {SP, TAB, LF, CR}
\* Outer mode: an unescaped separator ends the word
IsBreak(m, byte) == m = "Outer" /\ byte \in {SP, TAB, LF, CR}

NextMode(m, byte) ==
    CASE m = "Outer" ->
            IF byte = BSL THEN "OuterSlash"
            ELSE IF byte = SQ THEN "SingleQuote"
            ELSE IF byte = DQ THEN "DoubleQuote"
            ELSE "Outer"
      [] m = "OuterSlash" -> "Outer"
      [] m = "SingleQuote" ->
            IF byte = BSL THEN "SingleQuoteSlash"
            ELSE IF byte = SQ THEN "Outer"
            ELSE "SingleQuote"
      [] m = "SingleQuoteSlash" -> "SingleQuote"
      [] m = "DoubleQuote" ->
            IF byte = BSL THEN "DoubleQuoteSlash"
            ELSE IF byte = DQ THEN "Outer"
            ELSE "DoubleQuote"
      [] m = "DoubleQuoteSlash" -> "DoubleQuote"

OuterOut(byte) ==
    IF byte \in {BSL, SQ, DQ} THEN NoOut ELSE byte

\* a variant whose table lacks the separator bytes
OuterSlashOutNoSeparators(byte) ==
    IF byte \in {SQ, DQ, BSL} THEN byte
    ELSE IF byte = LowerN THEN LF
    ELSE IF byte = LowerR THEN CR
    ELSE IF byte = LowerT THEN TAB
    ELSE NoOut
\* a variant whose table lacks the quote bytes
OuterSlashOutNoQuotes(byte) ==
    IF byte \in {SP, TAB, LF, CR, BSL} THEN byte
    ELSE IF byte = LowerN THEN LF
    ELSE IF byte = LowerR THEN CR
    ELSE IF byte = LowerT THEN TAB
    ELSE NoOut
OuterSlashOut(byte) ==
    IF byte \in {SP, TAB, LF, CR, SQ, DQ, BSL} THEN byte
    ELSE IF byte = LowerN THEN LF
    ELSE IF byte = LowerR THEN CR
    ELSE IF byte = LowerT THEN TAB
    ELSE NoOut

SingleQuoteOut(byte) ==
    IF byte \in {BSL, SQ} THEN NoOut ELSE byte

\* a variant that passes every other byte verbatim
SingleQuoteSlashOutVerbatim(byte) == byte
SingleQuoteSlashOut(byte) ==
    IF byte \in {SQ, BSL} THEN byte ELSE NoOut

DoubleQuoteOut(byte) ==
    IF byte \in {BSL, DQ} THEN NoOut ELSE byte

\* a variant whose table has the separator bytes of the Outer-mode table
DoubleQuoteSlashOutWithSeparators(byte) ==
    IF byte \in {SP, TAB, LF, CR, SQ, DQ, BSL} THEN byte
    ELSE IF byte = LowerN THEN LF
    ELSE IF byte = LowerR THEN CR
    ELSE IF byte = LowerT THEN TAB
    ELSE NoOut
DoubleQuoteSlashOut(byte) ==
    IF byte \in {SQ, DQ, BSL} THEN byte
    ELSE IF byte = LowerN THEN LF
    ELSE IF byte = LowerR THEN CR
    ELSE IF byte = LowerT THEN TAB
    ELSE NoOut

Out(m, byte) ==
    CASE m = "Outer"            -> OuterOut(byte)
      [] m = "OuterSlash"       -> OuterSlashOut(byte)
      [] m = "SingleQuote"      -> SingleQuoteOut(byte)
      [] m = "SingleQuoteSlash" -> SingleQuoteSlashOut(byte)
      [] m = "DoubleQuote"      -> DoubleQuoteOut(byte)
      [] m = "DoubleQuoteSlash" -> DoubleQuoteSlashOut(byte)

----------------------------------------------------------------------------
(* The match of Win32ShellWords::next() *)

\* Normal: a separator ends the word; Quote and Escape: a line feed does
W32IsBreak(m, byte) ==
    \/ m = "Normal" /\ byte \in {SP, TAB, LF, CR}
    \/ m = "Quote" /\ byte = LF
    \/ m = "Escape" /\ byte = LF

\* the endpos the break leaves: an escaped line feed gives the '^' back
W32BreakEnd(m, k) == IF m = "Escape" THEN k - 1 ELSE k

W32NextMode(m, byte) ==
    CASE m = "Normal" ->
            IF byte = Caret THEN "Escape"
            ELSE IF byte = DQ THEN "Quote"
            ELSE "Normal"
      [] m = "Quote" -> IF byte = DQ THEN "Normal" ELSE "Quote"
      [] m = "Escape" -> "Escape"

\* NoOut stands for `continue`
W32Out(m, byte) ==
    CASE m = "Normal" -> IF byte \in {Caret, DQ} THEN NoOut ELSE byte
      [] m = "Quote"  -> IF byte = DQ THEN NoOut ELSE byte
      [] m = "Escape" -> byte

----------------------------------------------------------------------------
(* Pieces both iterators share *)

\* a variant that leaves the byte that was moved at its read position
MangledKeep(byte) == byte
\* self.0[i] = 0: what the read position holds after its byte was moved
Mangled(byte) == Zero

\* a variant that advances the write cursor by two
OutposAfterTwo(o) == o + 2
\* outpos += 1
OutposAfter(o) == o + 1

\* a variant that consumes every separator byte
IsConsumedSeparatorAny(byte) == byte \in {SP, TAB, LF, CR}
\* the trailing bytes the loop after the scan consumes
IsConsumedSeparator(byte) == byte = SP

\* a variant that splits one byte before the structural end
SplitIdxShort(e) == IF e > 0 THEN e - 1 ELSE e
\* the index split_off_front_inplace_mut is called with
SplitIdx(e) == e

----------------------------------------------------------------------------
(* The state machine *)

Init ==
    /\ \/ parser = "posix" /\ T = "str"   /\ input \in StrInputs
       \/ parser = "posix" /\ T = "bytes" /\ input \in ByteInputs
       \/ parser = "win32" /\ T = "str"   /\ input \in Win32Inputs
    /\ buf = input
    /\ start = 0
    /\ pc = "idle"
    /\ i = 0
    /\ outpos = 0
    /\ endpos = 0
    /\ mode = "Outer"
    /\ result = "Start"
    /\ words = <<>>
    /\ nones = 0
    /\ wr = {}

Locals(ni, no, ne, nm) ==
    /\ i' = ni
    /\ outpos' = no
    /\ endpos' = ne
    /\ mode' = nm

\* next(), step 1: the window is empty, the end has been reached
NextNone ==
    /\ pc = "idle"
    /\ IsExhausted
    /\ result' = "None"
    /\ nones' = IF nones < MaxNones THEN nones + 1 ELSE nones
    /\ wr' = {}
    /\ UNCHANGED <<parser, T, input, buf, start, pc, i, outpos, endpos, mode, words>>

\* next(), step 2: the locals before the for loop
NextStart ==
    /\ parser = "posix"
    /\ pc = "idle"
    /\ ~IsExhausted
    /\ pc' = "scan"
    /\ Locals(0, 0, InitialEndpos, "Outer")
    /\ wr' = {}
    /\ UNCHANGED <<parser, T, input, buf, start, result, words, nones>>

\* one iteration of the for loop that hits an unescaped separator: break
ScanBreak ==
    /\ parser = "posix"
    /\ pc = "scan"
    /\ i < WindowLen
    /\ IsBreak(mode, At(i))
    /\ pc' = "sep"
    /\ Locals(i, outpos, i, mode)
    /\ wr' = {}
    /\ UNCHANGED <<parser, T, input, buf, start, result, words, nones>>

\* one iteration of the for loop on any other byte
ScanByte ==
    /\ parser = "posix"
    /\ pc = "scan"
    /\ i < WindowLen
    /\ ~IsBreak(mode, At(i))
    /\ LET byte == At(i)
           b    == Out(mode, byte)
       IN  IF b = NoOut
           THEN /\ Locals(i + 1, outpos, endpos, NextMode(mode, byte))
                /\ wr' = {}
                /\ UNCHANGED <<buf, pc, result>>
           ELSE IF outpos = i
           THEN /\ Locals(i + 1, OutposAfter(outpos), endpos, NextMode(mode, byte))
                /\ wr' = {}
                /\ UNCHANGED <<buf, pc, result>>
           ELSE IF outpos < i
           THEN /\ buf' = [buf EXCEPT ![Abs(i)] = Mangled(byte), ![Abs(outpos)] = b]
                /\ wr' = {Abs(i), Abs(outpos)}
                /\ Locals(i + 1, OutposAfter(outpos), endpos, NextMode(mode, byte))
                /\ UNCHANGED <<pc, result>>
           ELSE \* assert!(outpos < i) fails
                /\ pc' = "panic"
                /\ result' = "Panic"
                /\ wr' = {}
                /\ UNCHANGED <<buf, i, outpos, endpos, mode>>
    /\ UNCHANGED <<parser, T, input, start, words, nones>>

\* Win32ShellWords::next(): the locals before the for loop
W32NextStart ==
    /\ parser = "win32"
    /\ pc = "idle"
    /\ ~IsExhausted
    /\ pc' = "scan"
    /\ Locals(0, 0, InitialEndpos, "Normal")
    /\ wr' = {}
    /\ UNCHANGED <<parser, T, input, buf, start, result, words, nones>>

\* Win32ShellWords::next(): an iteration of the for loop that breaks
W32ScanBreak ==
    /\ parser = "win32"
    /\ pc = "scan"
    /\ i < WindowLen
    /\ W32IsBreak(mode, At(i))
    /\ pc' = "sep"
    /\ Locals(i, outpos, W32BreakEnd(mode, i), mode)
    /\ wr' = {}
    /\ UNCHANGED <<parser, T, input, buf, start, result, words, nones>>

\* Win32ShellWords::next(): an iteration of the for loop on any other byte
W32ScanByte ==
    /\ parser = "win32"
    /\ pc = "scan"
    /\ i < WindowLen
    /\ ~W32IsBreak(mode, At(i))
    /\ LET byte == At(i)
           b    == W32Out(mode, byte)
       IN  IF b = NoOut
           THEN /\ Locals(i + 1, outpos, endpos, W32NextMode(mode, byte))
                /\ wr' = {}
                /\ UNCHANGED <<buf, pc, result>>
           ELSE IF outpos = i
           THEN /\ Locals(i + 1, OutposAfter(outpos), endpos, W32NextMode(mode, byte))
                /\ wr' = {}
                /\ UNCHANGED <<buf, pc, result>>
           ELSE IF outpos < i
           THEN /\ buf' = [buf EXCEPT ![Abs(i)] = Mangled(byte), ![Abs(outpos)] = b]
                /\ wr' = {Abs(i), Abs(outpos)}
                /\ Locals(i + 1, OutposAfter(outpos), endpos, W32NextMode(mode, byte))
                /\ UNCHANGED <<pc, result>>
           ELSE \* assert!(outpos < i) fails
                /\ pc' = "panic"
                /\ result' = "Panic"
                /\ wr' = {}
                /\ UNCHANGED <<buf, i, outpos, endpos, mode>>
    /\ UNCHANGED <<parser, T, input, start, words, nones>>

\* the for loop runs off the end of the window
ScanEnd ==
    /\ pc = "scan"
    /\ i = WindowLen
    /\ pc' = "sep"
    /\ wr' = {}
    /\ UNCHANGED <<parser, T, input, buf, start, i, outpos, endpos, mode, result, words, nones>>

\* "Consume multiple separators": one iteration of the while loop
ConsumeSeparator ==
    /\ pc = "sep"
    /\ endpos < WindowLen
    /\ IsConsumedSeparator(At(endpos))
    /\ buf' = [buf EXCEPT ![Abs(endpos)] = Zero]
    /\ wr' = {Abs(endpos)}
    /\ endpos' = endpos + 1
    /\ UNCHANGED <<parser, T, input, start, pc, i, outpos, mode, result, words, nones>>

\* the while loop is over: split the window and return the word
NextReturn ==
    /\ pc = "sep"
    /\ ~(endpos < WindowLen /\ IsConsumedSeparator(At(endpos)))
    /\ LET idx == SplitIdx(endpos)
           ret == SubSeq(buf, Abs(0), Abs(0) + outpos - 1)
       IN  IF idx > WindowLen \/ idx < 0 \/ outpos > idx \/ ~from_bytes(T, ret)
           THEN \* split_at_mut, the slice [..outpos] or expect() panics
                /\ pc' = "panic"
                /\ result' = "Panic"
                /\ UNCHANGED <<start, words, i, outpos, endpos, mode>>
           ELSE /\ pc' = "idle"
                /\ result' = "Some"
                /\ start' = start + idx
                /\ words' = IF Len(words) < MaxWords
                            THEN Append(words, [pos |-> start, len |-> outpos,
                                                span |-> idx, bytes |-> ret])
                            ELSE words
                /\ Locals(0, 0, 0, "Outer")
    /\ wr' = {}
    /\ UNCHANGED <<parser, T, input, buf, nones>>

Next ==
    \/ NextNone
    \/ NextStart
    \/ ScanBreak
    \/ ScanByte
    \/ W32NextStart
    \/ W32ScanBreak
    \/ W32ScanByte
    \/ ScanEnd
    \/ ConsumeSeparator
    \/ NextReturn

Spec == Init /\ [][Next]_vars

\* the caller keeps calling next(), and a call that was entered runs to its return
FairSpec == Spec /\ WF_vars(Next)

TypeOK ==
    /\ parser \in {"posix", "win32"}
    /\ T \in {"str", "bytes"}
    /\ pc \in {"idle", "scan", "sep", "panic"}
    /\ start \in 0..Len(buf)
    /\ Len(buf) = Len(input)
    /\ result \in {"Start", "Some", "None", "Panic"}

----------------------------------------------------------------------------
(* What the caller has observed *)

\* the bytes of the words yielded so far, in order
WordBytes == [k \in DOMAIN words |-> words[k].bytes]

\* a word was returned by a call that followed an earlier word
LaterCall == Len(words) >= 1 /\ pc \in {"scan", "sep"}

----------------------------------------------------------------------------
(* Reference notions the claims are stated with *)

NoQuoting(s) == \A k \in DOMAIN s : s[k] \notin {BSL, SQ, DQ}

\* s split on maximal runs of separator bytes: the maximal runs of other bytes
RECURSIVE SplitFrom(_, _, _)
SplitFrom(s, k, cur) ==
    IF k > Len(s) THEN (IF cur = <<>> THEN <<>> ELSE <<cur>>)
    ELSE IF s[k] \in Separators
         THEN (IF cur = <<>> THEN <<>> ELSE <<cur>>) \o SplitFrom(s, k + 1, <<>>)
         ELSE SplitFrom(s, k + 1, Append(cur, s[k]))

SplitOnSeparators(s) == SplitFrom(s, 1, <<>>)

\* the number of whitespace-delimited tokens of s, a separator counting as
\* a delimiter only outside quotes and when no backslash precedes it
\* (q: the open quote or 0, esc: a backslash precedes, tok: inside a token)
RECURSIVE TokensFrom(_, _, _, _, _)
TokensFrom(s, k, q, esc, tok) ==
    IF k > Len(s) THEN (IF tok THEN 1 ELSE 0)
    ELSE LET b == s[k]
         IN  IF esc THEN TokensFrom(s, k + 1, q, FALSE, TRUE)
             ELSE IF b = BSL THEN TokensFrom(s, k + 1, q, TRUE, TRUE)
             ELSE IF q # 0
                  THEN TokensFrom(s, k + 1, IF b = q THEN 0 ELSE q, FALSE, TRUE)
             ELSE IF b \in {SQ, DQ} THEN TokensFrom(s, k + 1, b, FALSE, TRUE)
             ELSE IF b \in Separators
                  THEN (IF tok THEN 1 ELSE 0) + TokensFrom(s, k + 1, 0, FALSE, FALSE)
             ELSE TokensFrom(s, k + 1, 0, FALSE, TRUE)

QuoteAwareTokens(s) == TokensFrom(s, 1, 0, FALSE, FALSE)

----------------------------------------------------------------------------
(* The claims *)

\* C1: for an input with no backslash, single quote or double quote, the
\* words yielded until None are the input split on maximal runs of
\* separator bytes, and no empty word is ever yielded.
C1_SplitOnSeparatorRuns ==
    (parser = "posix" /\ NoQuoting(input)) =>
        /\ \A k \in DOMAIN words : words[k].bytes # <<>>
        /\ result = "None" => WordBytes = SplitOnSeparators(input)

\* C2: for every input, repeated next() calls reach None, and the number of
\* words yielded before the first None is the number of whitespace-delimited
\* (quote-aware) tokens of the input.
C2_ReachesNoneWithTokenCount ==
    parser = "posix" => <>(result = "None" /\ Len(words) = QuoteAwareTokens(input))

\* C3: next() returns None exactly when the window is empty, and once it has
\* returned None every later call returns None too, the window stays empty
\* and no byte of the buffer changes.
C3_NoneIsTerminal ==
    [][ /\ (pc = "idle" /\ WindowLen = 0) => result' = "None"
        /\ result' = "None" => (pc = "idle" /\ WindowLen = 0)
        /\ result = "None" =>
              (result' = "None" /\ buf' = buf /\ start' = start /\ WindowLen' = 0)
      ]_vars

\* C3 witness: a second call after exhaustion has returned None as well
C3_Witness ==
    result = "None" /\ nones >= 2 /\ Len(words) >= 1

\* C4: the positions an already-yielded word occupies are never written
\* again: every write of a later call lands at or after the end of every
\* word yielded before, so each yielded word still holds its bytes.
C4_YieldedWordsNotOverwritten ==
    \A k \in DOMAIN words :
        /\ \A p \in wr : p > words[k].pos + words[k].len
        /\ SubSeq(buf, words[k].pos + 1, words[k].pos + words[k].len) = words[k].bytes

\* C4 witness: a later call compacts (writes) while an earlier non-empty
\* word is held by the caller
C4_Witness ==
    /\ Len(words) >= 1
    /\ words[1].len >= 1
    /\ pc = "scan"
    /\ Cardinality(wr) = 2

\* C5: with text output and valid UTF-8 input, every word is valid UTF-8,
\* so the expect() on T::from_bytes never panics.
C5_TextWordsAreValidUtf8 ==
    (parser = "posix" /\ T = "str" /\ ValidUtf8(input)) =>
        /\ result # "Panic"
        /\ \A k \in DOMAIN words : ValidUtf8(words[k].bytes)

\* s without its k-th byte
Remove(s, k) == SubSeq(s, 1, k - 1) \o SubSeq(s, k + 1, Len(s))

Plain(b) == b \notin Separators \cup {BSL, SQ, DQ}

\* s is plain bytes around one backslash, at k, that precedes a separator
EscapedSeparatorAt(s, k) ==
    /\ k \in 1..(Len(s) - 1)
    /\ s[k] = BSL
    /\ s[k + 1] \in Separators
    /\ \A j \in DOMAIN s \ {k, k + 1} : Plain(s[j])

\* C6: in Outer mode a backslash is not emitted, and a separator byte that
\* follows it is emitted as a literal byte of the current word and does not
\* end the word; so an input of plain bytes around one backslash-separator
\* pair is the single word that is the input without the backslash.
C6_EscapedSeparatorIsLiteral ==
    /\ [](\A k \in DOMAIN input :
            (parser = "posix" /\ EscapedSeparatorAt(input, k)) =>
                /\ Len(words) <= 1
                /\ Len(words) = 1 =>
                      (words[1].bytes = Remove(input, k) /\ WindowLen = 0)
                /\ result # "Panic")
    /\ [][ (pc = "scan" /\ i < WindowLen) =>
             /\ (mode = "Outer" /\ buf[start + i + 1] = BSL) =>
                   /\ pc' = "scan" /\ mode' = "OuterSlash"
                   /\ outpos' = outpos /\ buf' = buf
             /\ (mode = "OuterSlash" /\ buf[start + i + 1] \in Separators) =>
                   /\ pc' = "scan" /\ mode' = "Outer"
                   /\ outpos' = outpos + 1 /\ endpos' = endpos
                   /\ buf'[start + outpos + 1] = buf[start + i + 1]
         ]_vars

\* C6 witness: `a\ t` has been parsed to the single word `a t`, then None
C6_Witness ==
    /\ parser = "posix"
    /\ input = <<LowerA, BSL, SP, LowerT>>
    /\ result = "None"
    /\ WordBytes = << <<LowerA, SP, LowerT>> >>

\* s has no backslash and exactly one quoted region, opened at k and closed
\* at l by the quote byte q, with plain bytes outside the region
QuotedOnce(s, q, k, l) ==
    /\ k < l
    /\ s[k] = q
    /\ s[l] = q
    /\ \A j \in DOMAIN s \ {k, l} :
          /\ s[j] # q
          /\ s[j] # BSL
          /\ (j < k \/ j > l) => Plain(s[j])

\* C7: inside a quoted region separators and the other kind of quote are
\* emitted literally and never end the word, the opening and the closing
\* quote are consumed and not emitted, quoted and unquoted segments that
\* touch form one word, and the scan leaves the for loop only at a
\* separator seen in Outer mode or at the end of the window.
C7_QuotedRegionIsLiteral ==
    /\ [](\A q \in {SQ, DQ} : \A k, l \in DOMAIN input :
            (parser = "posix" /\ QuotedOnce(input, q, k, l)) =>
                /\ Len(words) <= 1
                /\ Len(words) = 1 =>
                      (words[1].bytes = Remove(Remove(input, l), k) /\ WindowLen = 0)
                /\ result # "Panic")
    /\ [][ (pc = "scan" /\ i < WindowLen) =>
             LET byte == buf[start + i + 1]
                 emitted == /\ pc' = "scan" /\ mode' = mode
                            /\ outpos' = outpos + 1
                            /\ buf'[start + outpos + 1] = byte
                 consumed(m) == /\ pc' = "scan" /\ mode' = m
                                /\ outpos' = outpos /\ buf' = buf
             IN  /\ (mode \in {"SingleQuote", "DoubleQuote"} /\ byte \in Separators)
                       => emitted
                 /\ (mode = "SingleQuote" /\ byte = DQ) => emitted
                 /\ (mode = "DoubleQuote" /\ byte = SQ) => emitted
                 /\ (mode = "Outer" /\ byte = SQ) => consumed("SingleQuote")
                 /\ (mode = "Outer" /\ byte = DQ) => consumed("DoubleQuote")
                 /\ (mode = "SingleQuote" /\ byte = SQ) => consumed("Outer")
                 /\ (mode = "DoubleQuote" /\ byte = DQ) => consumed("Outer")
         ]_vars
    /\ [][ (parser = "posix" /\ pc = "scan" /\ pc' = "sep") =>
             \/ i = WindowLen
             \/ mode = "Outer" /\ buf[start + i + 1] \in Separators
         ]_vars
    /\ [][ Len(words') > Len(words) => pc = "sep" ]_vars

\* C7 witness: an unquoted byte followed by a quoted region that holds a
\* separator (such as `a' '`) has been parsed to a single word, then None
C7_Witness ==
    /\ parser = "posix"
    /\ \E q \in {SQ, DQ} : \E k, l \in DOMAIN input :
          /\ QuotedOnce(input, q, k, l)
          /\ k > 1
          /\ \E j \in (k + 1)..(l - 1) : input[j] \in Separators
          /\ WordBytes = << Remove(Remove(input, l), k) >>
    /\ result = "None"

\* C8: the length of every word is at most the number of bytes its call
\* removed from the front of the window, so the slice [..outpos] of the
\* detached region is in bounds.
C8_WordNotLongerThanSpan ==
    /\ pc = "sep" => (outpos <= endpos /\ endpos <= WindowLen)
    /\ \A k \in DOMAIN words : words[k].len <= words[k].span

\* C8 witness: a word shorter than its span and a word as long as its span
C8_Witness ==
    /\ Len(words) >= 2
    /\ words[1].len >= 1
    /\ words[1].len < words[1].span
    /\ words[2].len >= 1
    /\ words[2].len = words[2].span

\* the bytes at the even positions of s
EvenBytes(s) == [k \in 1..(Len(s) \div 2) |-> s[2 * k]]

\* s is a literal of identity-escapable bytes, each prefixed with a backslash
IsEscapedLiteral(s) ==
    /\ \A k \in DOMAIN EvenBytes(s) : EvenBytes(s)[k] \in IdentityEscapable
    /\ s = Escape(EvenBytes(s))

\* C9 as stated: the escaped form of every literal of identity-escapable
\* bytes parses to exactly one word, the literal, and then None.
C9_RoundTrip ==
    (parser = "posix" /\ IsEscapedLiteral(input) /\ result = "None") =>
        WordBytes = << EvenBytes(input) >>

\* C9 amended: the escaped form of every non-empty literal of
\* identity-escapable bytes parses to exactly one word, the literal, which
\* empties the window, so that the next call returns None.
C9_RoundTripNonEmpty ==
    (parser = "posix" /\ IsEscapedLiteral(input) /\ input # <<>>) =>
        /\ Len(words) <= 1
        /\ Len(words) = 1 => (words[1].bytes = EvenBytes(input) /\ WindowLen = 0)
        /\ result = "None" => WordBytes = << EvenBytes(input) >>
        /\ result # "Panic"

\* C9 witness: a literal of several bytes has made the round trip
C9_Witness ==
    /\ parser = "posix"
    /\ IsEscapedLiteral(input)
    /\ Len(input) >= 4
    /\ result = "None"
    /\ WordBytes = << EvenBytes(input) >>

\* C10: a scan that reaches the end of the window inside a quote or right
\* after a backslash is not an error: the call returns the bytes compacted
\* so far as a word, without a panic, and leaves the window empty.
C10_UnterminatedIsNotAnError ==
    [][ (parser = "posix" /\ pc = "sep" /\ mode # "Outer") =>
          /\ result' = "Some"
          /\ pc' = "idle"
          /\ WindowLen' = 0
          /\ Len(words') = Len(words) + 1
          /\ words'[Len(words')].bytes = SubSeq(buf, start + 1, start + outpos)
      ]_vars

OnlySeparators(s) == s # <<>> /\ \A k \in DOMAIN s : s[k] \in Separators

\* C12: for a non-empty input of separator bytes only, the first call to
\* next() returns None: no word is ever produced.
C12_OnlySeparatorsYieldNothing ==
    (parser = "posix" /\ OnlySeparators(input)) =>
        /\ result \in {"Start", "None"}
        /\ words = <<>>

\* the buffer positions a word's call removed behind the word itself
Gap(w) == (w.pos + w.len + 1)..(w.pos + w.span)

\* C13 as stated: after a call returned a word of length L and removed E
\* bytes, every byte of the removed region at offsets L .. E-1 is zero.
C13_GapIsZero ==
    parser = "posix" =>
        \A k \in DOMAIN words : \A p \in Gap(words[k]) : buf[p] = Zero

\* C13 amended: every byte of the removed region at offsets L .. E-1 is
\* zero, except consumed bytes that emitted nothing and that no write
\* touched: these still hold their input byte, which is a quote, a
\* backslash or the byte right after a backslash.
C13_GapIsZeroOrConsumedStructure ==
    parser = "posix" =>
        \A k \in DOMAIN words : \A p \in Gap(words[k]) :
            \/ buf[p] = Zero
            \/ /\ buf[p] = input[p]
               /\ \/ input[p] \in {BSL, SQ, DQ}
                  \/ p > 1 /\ input[p - 1] = BSL

\* C13 witness: a word (such as the `a` of `'a' `) whose removed region
\* holds a zeroed read position, a zeroed space and a quote byte left as is
C13_Witness ==
    /\ parser = "posix"
    /\ \E k \in DOMAIN words : \E p, q, r \in Gap(words[k]) :
          /\ buf[p] = Zero /\ input[p] = LowerA
          /\ buf[q] = Zero /\ input[q] = SP
          /\ buf[r] = SQ

\* C14: with valid UTF-8 input and text output, whenever a next() call has
\* returned (a word or None) the whole buffer, consumed region and leftover
\* bytes included, is valid UTF-8.
C14_BufferStaysValidUtf8 ==
    (parser = "posix" /\ T = "str" /\ ValidUtf8(input)
        /\ pc = "idle" /\ result \in {"Some", "None"}) =>
        ValidUtf8(buf)

\* C14 witness: a two-byte character was moved towards the front of the
\* buffer (as in `"é"`), the iteration is complete and the buffer is valid
C14_Witness ==
    /\ parser = "posix"
    /\ T = "str"
    /\ pc = "idle"
    /\ result = "None"
    /\ \E p \in DOMAIN input : input[p] = Lead2 /\ buf[p] # Lead2
    /\ ValidUtf8(buf)

\* the window offset from which on the current call has not touched the buffer
Untouched ==
    IF pc = "scan" THEN i ELSE IF pc = "sep" THEN endpos ELSE 0

\* C15: a call that returns a word removes exactly the first endpos bytes
\* of the window and keeps the rest: the window only shrinks from the
\* front, no scan modifies a byte at or after the new window start, so the
\* window between calls holds the input's bytes at those positions and,
\* for valid UTF-8 input, is valid text.
C15_WindowIsUnmodifiedSuffix ==
    /\ [](parser = "posix" =>
            /\ start <= Len(buf)
            /\ pc # "panic" =>
                  \A p \in (start + Untouched + 1)..Len(buf) : buf[p] = input[p]
            /\ pc = "idle" =>
                  /\ Window = SubSeq(input, start + 1, Len(input))
                  /\ T = "str" => ValidUtf8(Window))
    /\ [][ parser = "posix" =>
             /\ start' >= start
             /\ start' # start => pc = "sep"
             /\ (pc = "sep" /\ pc' = "idle") =>
                   (result' = "Some" /\ start' = start + endpos)
         ]_vars

\* C15 witness: a call that compacted a word has returned and left a
\* non-empty window behind
C15_Witness ==
    /\ parser = "posix"
    /\ pc = "idle"
    /\ result = "Some"
    /\ start > 0
    /\ WindowLen > 0
    /\ buf # input

C17_WriteCursorNeverPassesRead ==
    /\ [](parser = "posix" =>
            /\ pc \in {"scan", "sep"} => (outpos <= i /\ i <= WindowLen)
            /\ pc = "scan" => \A p \in wr : (start < p /\ p <= start + i))
    /\ [][ (parser = "posix" /\ pc = "scan") =>
             /\ pc' # "panic"
             /\ \A p \in wr' : (Abs(outpos) <= p /\ p <= Abs(i))
         ]_vars

\* C17 witness: in a call after the first, a step of the scan has just
\* moved a byte down to the write cursor, which is behind the read cursor
C17_Witness ==
    /\ parser = "posix"
    /\ pc = "scan"
    /\ start > 0
    /\ wr # {}
    /\ outpos < i

\* the control byte a backslash followed by `n`, `r` or `t` stands for
ControlOf(byte) ==
    IF byte = LowerN THEN LF ELSE IF byte = LowerR THEN CR ELSE TAB

\* C18: in Outer mode and inside double quotes a backslash followed by `n`,
\* `r` or `t` emits exactly one byte (newline, carriage return, tab), which
\* is content of the current word and does not end it; inside double quotes
\* a backslash followed by a space, tab, newline or carriage return emits
\* nothing, whereas in Outer mode it emits that byte.
C18_ControlEscapes ==
    /\ [][ (parser = "posix" /\ pc = "scan" /\ i < WindowLen) =>
             /\ (mode \in {"OuterSlash", "DoubleQuoteSlash"}
                   /\ At(i) \in {LowerN, LowerR, LowerT}) =>
                   /\ pc' = "scan"
                   /\ i' = i + 1
                   /\ outpos' = outpos + 1
                   /\ buf'[Abs(outpos)] = ControlOf(At(i))
                   /\ mode' = (IF mode = "OuterSlash" THEN "Outer" ELSE "DoubleQuote")
             /\ (mode = "DoubleQuoteSlash" /\ At(i) \in Separators) =>
                   /\ pc' = "scan"
                   /\ i' = i + 1
                   /\ outpos' = outpos
                   /\ mode' = "DoubleQuote"
             /\ (mode = "OuterSlash" /\ At(i) \in Separators) =>
                   /\ pc' = "scan"
                   /\ i' = i + 1
                   /\ outpos' = outpos + 1
                   /\ buf'[Abs(outpos)] = input[Abs(i)]
                   /\ mode' = "Outer"
         ]_vars
    /\ [](( parser = "posix" /\ Len(words) >= 1) =>
            /\ (Len(input) >= 3 /\ input[1] = BSL
                  /\ input[2] \in {LowerN, LowerR, LowerT}
                  /\ input[3] \in {LowerN, LowerR, LowerT, LowerA}) =>
                  /\ words[1].len >= 2
                  /\ words[1].bytes[1] = ControlOf(input[2])
                  /\ words[1].bytes[2] = input[3]
            /\ (Len(input) = 4 /\ input[1] = DQ /\ input[2] = BSL /\ input[4] = DQ) =>
                  /\ input[3] \in {LowerN, LowerR, LowerT} =>
                        words[1].bytes = <<ControlOf(input[3])>>
                  /\ input[3] \in Separators => words[1].bytes = <<>>
            /\ (Len(input) = 2 /\ input[1] = BSL /\ input[2] \in Separators) =>
                  words[1].bytes = <<input[2]>>)

\* C18 witness: the call on `\rn` has returned the one word <CR>n, the
\* carriage return coming from the escape and not ending the word
C18_Witness ==
    /\ parser = "posix"
    /\ input = <<BSL, LowerR, LowerN>>
    /\ Len(words) = 1
    /\ words[1].bytes = <<CR, LowerN>>
    /\ result = "Some"

\* C19: in Win32ShellWords a '^' escapes only the byte that immediately
\* follows it: the '^' is not emitted, the following byte (any byte except
\* line feed) is emitted literally, and the byte after that is interpreted
\* in Normal mode again, so a later unescaped separator ends the word.
C19_CaretEscapesOneByte ==
    /\ [][ (parser = "win32" /\ pc = "scan" /\ i < WindowLen) =>
             /\ (mode = "Normal" /\ At(i) = Caret) =>
                   /\ pc' = "scan"
                   /\ i' = i + 1
                   /\ outpos' = outpos
                   /\ mode' = "Escape"
             /\ (mode = "Escape" /\ At(i) # LF) =>
                   /\ pc' = "scan"
                   /\ i' = i + 1
                   /\ outpos' = outpos + 1
                   /\ buf'[Abs(outpos)] = input[Abs(i)]
                   /\ mode' = "Normal"
         ]_vars
    /\ []((parser = "win32" /\ Len(words) >= 1
             /\ Len(input) >= 3 /\ input[1] = Caret /\ input[2] = LowerA
             /\ input[3] \in {SP, TAB, LF, CR}) =>
            words[1].bytes = <<LowerA>>)

=============================================================================
